---------------------------- MODULE Spec2Model ----------------------------
(***************************************************************************)
(* Cloudflare Access gate of AIOStreams: cfAccessMiddleware and the JWKS   *)
(* cache it shares between requests (src/unnamed/part_000, lines 1-224).   *)
(*                                                                         *)
(* Node runs the middleware on one thread: the code between two awaits is  *)
(* one atomic step.  A request is therefore modelled by three steps:       *)
(*   Arrive    lines 135-192 and, on the assertion path, 56-65 and 16-31   *)
(*             up to the suspension at `await fetch(certsUrl)`;            *)
(*   FetchDone lines 31-47: the response of the certs endpoint arrives;    *)
(*   Verify    lines 66-75 and 195-223: jose verifies, the gate decides.   *)
(* Time is in milliseconds, as Date.now() gives it.                        *)
(*                                                                         *)
(* The Cloudflare Worker that proxies requests to the gate and injects the *)
(* service token (src/unnamed/part_001) is modelled in front of it.        *)
(***************************************************************************)
EXTENDS Integers, Sequences, FiniteSets, TLC

VARIABLES
  env,            \* Env.CF_ACCESS_*: read at decision time, never written
  clock,          \* what Date.now() returns
  cachedJWKS,     \* line 8
  jwksCacheTime,  \* line 9
  reqs,           \* the requests in progress, one record per slot
  arrived,        \* number of requests received so far
  workerEnv,      \* the secrets of the Cloudflare Worker (its `env`)
  edge,           \* the request the Worker is proxying
  old             \* the assertion-only middleware, run side by side: its
                  \* own cachedJWKS and jwksCacheTime and its request

vars ==
  <<env, clock, cachedJWKS, jwksCacheTime, reqs, arrived, workerEnv, edge, old>>

-----------------------------------------------------------------------------
(* Bounds of the model *)

MaxSlots == 2      \* requests in progress at once (concurrent specification)
MaxArrivals == 3   \* requests received in one behaviour (concurrent spec.)
MaxTicks == 3      \* clock steps in one behaviour
MaxRules == 3      \* rules in a bypass list (path-matching specification)

-----------------------------------------------------------------------------
(* JavaScript values *)

\* `undefined`: a header that is absent, an Env entry that is not set
Undefined == "<undefined>"

\* !x for a string | undefined
Falsy(s) == s = Undefined \/ s = ""

\* JSON values a response body can parse to.  kind "jwks" is an object with a
\* keys array (the key ids are kept), "object" any other object or array,
\* "null" the JSON null.
JsonNull == [kind |-> "null", keys |-> {}]
JsonObject == [kind |-> "object", keys |-> {}]
Jwks(kids) == [kind |-> "jwks", keys |-> kids]

\* x && ... for a JSONWebKeySet | null
Truthy(v) == v.kind # "null"


-----------------------------------------------------------------------------
(* Strings the code inspects character by character are sequences of         *)
(* one-character strings.                                                    *)

endsWith(s, c) == Len(s) > 0 /\ s[Len(s)] = c

\* s.slice(0, -2)
sliceDropLastTwo(s) == SubSeq(s, 1, Len(s) - 2)

\* s.slice(0, -1)
sliceDropLast(s) == SubSeq(s, 1, Len(s) - 1)

startsWith(s, prefix) ==
  Len(prefix) <= Len(s) /\ SubSeq(s, 1, Len(prefix)) = prefix

PathHealth == <<"/", "h", "/", "a">>      \* under the wildcard rule
PathHealthExact == <<"/", "v">>           \* equal to the exact rule
PathSecure == <<"/", "s">>                \* matched by no rule

RuleWildcard == <<"/", "h", "/", "*">>
RuleExact == <<"/", "v">>

\* the paths and rules of the path-matching specification, spelled out
PathHealthSlash == <<"/", "h", "e", "a", "l", "t", "h", "/">>
PathHealthLive == <<"/", "h", "e", "a", "l", "t", "h", "/", "l", "i", "v", "e">>
PathHealthy == <<"/", "h", "e", "a", "l", "t", "h", "y">>
PathHealthBare == <<"/", "h", "e", "a", "l", "t", "h">>
PathStarLive == <<"/", "*", "/", "l", "i", "v", "e">>

RuleHealthWildcard == <<"/", "h", "e", "a", "l", "t", "h", "/", "*">>
RuleHealthPrefix == <<"/", "h", "e", "a", "l", "t", "h", "*">>
RuleHealthBare == <<"/", "h", "e", "a", "l", "t", "h">>
RuleStar == <<"*">>
RuleInnerStar == <<"/", "*", "/", "l", "i", "v", "e">>  \* no wildcard: the * is inside

\* Env.CF_ACCESS_BYPASS_PATHS: unset, or a list of rules
BypassUnset == [defined |-> FALSE, rules |-> <<>>]
BypassList(rules) == [defined |-> TRUE, rules |-> rules]

-----------------------------------------------------------------------------
(* Tokens: what the CF-Access-JWT-Assertion header can hold.  A token keeps  *)
(* the key id of its header (kid), the key that really signed it (signer)    *)
(* and the claims jose checks or the gate copies.                            *)

\* the issuer string of line 68
IssuerOf(teamDomain) == <<"https://", teamDomain, ".cloudflareaccess.com">>

\* an exp claim (seconds since the epoch) later than every clock value
FarFuture == 2000 * 1000 * 1000

Token(wellFormed, kid, signer, iss, aud, exp) ==
  [hdr |-> "value", wellFormed |-> wellFormed, kid |-> kid, signer |-> signer,
   iss |-> iss, aud |-> aud, exp |-> exp, iat |-> 1,
   sub |-> "user-1", email |-> "user-1@example.com"]

\* the header is absent (req.get gives undefined), or there with no value
JwtAbsent == [Token(FALSE, "", "", <<>>, {}, 0) EXCEPT !.hdr = "absent"]
JwtEmpty == [Token(FALSE, "", "", <<>>, {}, 0) EXCEPT !.hdr = "empty"]

TokGood == Token(TRUE, "k1", "k1", IssuerOf("team"), {"aud-1"}, FarFuture)
TokKey2 == Token(TRUE, "k2", "k2", IssuerOf("team"), {"aud-1"}, FarFuture)
TokForged == Token(TRUE, "k1", "attacker", IssuerOf("team"), {"aud-1"}, FarFuture)
TokBadIss == Token(TRUE, "k1", "k1", IssuerOf("other"), {"aud-1"}, FarFuture)
TokBadAud == Token(TRUE, "k1", "k1", IssuerOf("team"), {"aud-2"}, FarFuture)
TokExpired == Token(TRUE, "k1", "k1", IssuerOf("team"), {"aud-1"}, 1)
TokMalformed == Token(FALSE, "", "", <<>>, {}, 0)
\* a valid token whose payload has no email claim
TokNoEmail == [TokGood EXCEPT !.email = Undefined]

\* !cfAccessJwt
JwtFalsy(jwt) == jwt.hdr # "value"

-----------------------------------------------------------------------------
(* jose, as the gate uses it *)

\* jose.createLocalJWKSet(jwks) throws unless jwks is an object with a keys array
createLocalJWKSetOk(jwks) == jwks.kind = "jwks"

\* jwtVerify that takes the signature for good without looking the key up
jwtVerifyOkAnyKey(token, jwks, issuer, audience, nowMs) ==
  /\ token.wellFormed
  /\ token.signer = token.kid
  /\ token.iss = issuer
  /\ audience \in token.aud
  /\ token.exp > nowMs \div 1000

\* jwtVerify that does not look at the aud claim
jwtVerifyOkIgnoreAudience(token, jwks, issuer, audience, nowMs) ==
  /\ token.wellFormed
  /\ token.kid \in jwks.keys
  /\ token.signer = token.kid
  /\ token.iss = issuer
  /\ token.exp > nowMs \div 1000

\* jose.jwtVerify(token, JWKS, {issuer, audience}) resolves (TRUE) or rejects
jwtVerifyOk(token, jwks, issuer, audience, nowMs) ==
  /\ token.wellFormed
  /\ token.kid \in jwks.keys
  /\ token.signer = token.kid
  /\ token.iss = issuer
  /\ audience \in token.aud
  /\ token.exp > nowMs \div 1000

-----------------------------------------------------------------------------
(* The pure helpers of the gate *)

JWKS_CACHE_TTL == 60 * 60 * 1000

\* CacheFresh with <= for < in line 19
CacheFreshInclusive(cached, cacheTime, now) ==
  Truthy(cached) /\ now - cacheTime <= JWKS_CACHE_TTL

\* line 19: cachedJWKS && now - jwksCacheTime < JWKS_CACHE_TTL
CacheFresh(cached, cacheTime, now) ==
  Truthy(cached) /\ now - cacheTime < JWKS_CACHE_TTL

\* shouldBypassAuth with `return false` inside the loop: only the first rule
\* of the list is tried
shouldBypassAuthFirstRule(path, bypass) ==
  LET rules == IF bypass.defined THEN bypass.rules ELSE <<>> IN
  /\ Len(rules) > 0
  /\ \/ path = rules[1]
     \/ endsWith(rules[1], "*") /\ startsWith(path, sliceDropLast(rules[1]))

RECURSIVE bypassFrom(_, _, _)
\* the for loop of shouldBypassAuth, from rule number i on
bypassFrom(path, rules, i) ==
  IF i > Len(rules) THEN FALSE
  ELSE IF path = rules[i] THEN TRUE
  ELSE IF endsWith(rules[i], "*") /\ startsWith(path, sliceDropLast(rules[i]))
       THEN TRUE
  ELSE bypassFrom(path, rules, i + 1)

shouldBypassAuth(path, bypass) ==
  bypassFrom(path, IF bypass.defined THEN bypass.rules ELSE <<>>, 1)

\* validateServiceToken with || for && in line 117
validateServiceTokenEither(clientId, clientSecret, expectedClientId, expectedClientSecret) ==
  IF Falsy(expectedClientId) \/ Falsy(expectedClientSecret) THEN FALSE
  ELSE clientId = expectedClientId \/ clientSecret = expectedClientSecret

validateServiceToken(clientId, clientSecret, expectedClientId, expectedClientSecret) ==
  IF Falsy(expectedClientId) \/ Falsy(expectedClientSecret) THEN FALSE
  ELSE clientId = expectedClientId /\ clientSecret = expectedClientSecret

-----------------------------------------------------------------------------
(* Requests *)

Slots == 1..MaxSlots

\* req.cfAccessIdentity: never set, set at line 155, set at line 195
NoIdentity ==
  [type |-> "none", clientId |-> "", email |-> "", sub |-> "", iat |-> 0, exp |-> 0]
ServiceTokenIdentity(clientId) ==
  [NoIdentity EXCEPT !.type = "service_token", !.clientId = clientId]
JwtIdentity(token) ==
  [NoIdentity EXCEPT !.type = "jwt", !.email = token.email, !.sub = token.sub,
                     !.iat = token.iat, !.exp = token.exp]

DetailNone == ""
DetailServiceToken == "Invalid service token credentials."
DetailMissing ==
  "This application is protected by Cloudflare Access. Please authenticate through Cloudflare Access."
DetailToken == "Invalid or expired Cloudflare Access token."

\* q consulted `what` (a ghost record of the control path)
Consult(q, what) == [q EXCEPT !.checks = Append(q.checks, what)]
Did(q, what) == \E i \in 1..Len(q.checks) : q.checks[i] = what

\* A slot with no request in it
Idle ==
  [pc |-> "idle",
   path |-> <<>>, clientId |-> Undefined, clientSecret |-> Undefined,
   jwt |-> JwtAbsent,            \* the request: req.path and the three headers
   checks |-> <<>>,              \* what the middleware consulted, in order
   now |-> 0,                    \* `now` of getCloudflareJWKS, line 16
   source |-> "none",            \* how getCloudflareJWKS ended:
                                 \*   none | cache | pending | fetched | failed
   calls |-> 0,                  \* calls of fetch(certsUrl), line 31
   jwks |-> JsonNull,            \* what getCloudflareJWKS returned
   status |-> 0,                 \* 0 until decided; 200 for next(), 403
   nexts |-> 0,                  \* calls of next()
   sent |-> 0,                   \* responses sent with res.status(..).json(..)
   success |-> TRUE,             \* the body of the response sent, if any:
   error |-> "",                 \*   success, error and
   detail |-> DetailNone,        \*   detail
   identity |-> NoIdentity]      \* req.cfAccessIdentity

Request(path, clientId, clientSecret, jwt) ==
  [Idle EXCEPT !.path = path, !.clientId = clientId,
               !.clientSecret = clientSecret, !.jwt = jwt]

\* return next()
Admit(q) == [q EXCEPT !.pc = "done", !.status = 200, !.nexts = q.nexts + 1]

\* Deny without the `return`: the 403 is sent and the handler goes on to next()
DenyAndContinue(q, detail) ==
  [q EXCEPT !.pc = "done", !.status = 403, !.sent = q.sent + 1,
            !.success = FALSE, !.error = "Access denied", !.detail = detail,
            !.nexts = q.nexts + 1]

\* return res.status(403).json({success: false, error: 'Access denied', detail})
\* (lines 165-169, 182-187 and 218-222: the same literal but for the detail)
Deny(q, detail) ==
  [q EXCEPT !.pc = "done", !.status = 403, !.sent = q.sent + 1,
            !.success = FALSE, !.error = "Access denied", !.detail = detail]

\* lines 16-31 of getCloudflareJWKS, up to the first await
getCloudflareJWKS(q0) ==
  LET now == clock
      q == [Consult(q0, "cache") EXCEPT !.now = now]
  IN
  IF CacheFresh(cachedJWKS, jwksCacheTime, now)
  THEN [q EXCEPT !.pc = "verifying", !.source = "cache", !.jwks = cachedJWKS]
  ELSE IF Falsy(env.teamDomain)
  THEN Deny([q EXCEPT !.source = "failed"], DetailToken)
  ELSE [q EXCEPT !.pc = "fetching", !.source = "pending", !.calls = q.calls + 1]

\* verifyCloudflareAccessToken without the test of line 59
verifyCloudflareAccessTokenUnchecked(q0) == getCloudflareJWKS(Consult(q0, "verify"))

\* lines 56-65 of verifyCloudflareAccessToken; a throw lands in the catch of
\* the middleware (lines 211-222).  The rejected promise is awaited in a
\* microtask of the same turn, in which no other request touches the cache,
\* so the denial belongs to the step of the arrival.
verifyCloudflareAccessToken(q0) ==
  LET q == Consult(q0, "verify") IN
  IF Falsy(env.teamDomain) \/ Falsy(env.aud)
  THEN Deny(q, DetailToken)
  ELSE getCloudflareJWKS(q)

\* AssertionBranch with one detail for a missing and for an invalid assertion
AssertionBranchGenericDetail(q0) ==
  LET q == Consult(q0, "assertion") IN
  IF JwtFalsy(q.jwt) THEN Deny(q, DetailToken)
  ELSE verifyCloudflareAccessToken(q)

\* AssertionBranch that hands whatever the header holds to the verifier
AssertionBranchVerifyAlways(q0) ==
  verifyCloudflareAccessToken(Consult(q0, "assertion"))

\* lines 173-192
AssertionBranch(q0) ==
  LET q == Consult(q0, "assertion") IN
  IF JwtFalsy(q.jwt) THEN Deny(q, DetailMissing)
  ELSE verifyCloudflareAccessToken(q)

\* line 150 with || for &&
ServiceTokenPresentedEither(q) == ~Falsy(q.clientId) \/ ~Falsy(q.clientSecret)

\* line 150: cfAccessClientId && cfAccessClientSecret
ServiceTokenPresented(q) == ~Falsy(q.clientId) /\ ~Falsy(q.clientSecret)

\* ServiceTokenBranch that falls back to the assertion when validation fails
ServiceTokenBranchFallThrough(q0) ==
  LET q == Consult(q0, "service-token") IN
  IF validateServiceToken(q.clientId, q.clientSecret,
                          env.serviceTokenId, env.serviceTokenSecret)
  THEN Admit([q EXCEPT !.identity = ServiceTokenIdentity(q.clientId)])
  ELSE AssertionBranch(q)

\* the service-token branch, lines 151-170
ServiceTokenBranch(q0) ==
  LET q == Consult(q0, "service-token") IN
  IF validateServiceToken(q.clientId, q.clientSecret,
                          env.serviceTokenId, env.serviceTokenSecret)
  THEN Admit([q EXCEPT !.identity = ServiceTokenIdentity(q.clientId)])
  ELSE Deny(q, DetailServiceToken)

\* EnabledGate with the credential checks ahead of the bypass check
EnabledGateBypassLast(q0) ==
  LET q == Consult(q0, "bypass") IN
  IF ServiceTokenPresented(q) THEN ServiceTokenBranch(q)
  ELSE IF shouldBypassAuth(q.path, env.bypassPaths) THEN Admit(q)
  ELSE AssertionBranch(q)

\* lines 140-192, the gate being enabled
EnabledGate(q0) ==
  LET q == Consult(q0, "bypass") IN
  IF shouldBypassAuth(q.path, env.bypassPaths) THEN Admit(q)
  ELSE IF ServiceTokenPresented(q) THEN ServiceTokenBranch(q)
  ELSE AssertionBranch(q)

\* cfAccessMiddleware without the test of line 136
cfAccessMiddlewareAlwaysOn(q0) == EnabledGate(Consult(q0, "enabled"))

\* cfAccessMiddleware from its entry to its first suspension or its return
cfAccessMiddleware(q0) ==
  LET q == Consult(q0, "enabled") IN
  IF ~env.enabled THEN Admit(q) ELSE EnabledGate(q)

-----------------------------------------------------------------------------
(* What the certs endpoint can answer to fetch(certsUrl) *)

NetworkError == [result |-> "network-error", body |-> JsonNull]  \* fetch rejects
Non2xx == [result |-> "non-2xx", body |-> JsonNull]              \* !response.ok
BadJson == [result |-> "bad-json", body |-> JsonNull]            \* json() rejects
Json(body) == [result |-> "json", body |-> body]                 \* json() resolves

KeysOld == Jwks({"k1"})
KeysRotated == Jwks({"k1", "k2"})

FetchResults ==
  {NetworkError, Non2xx, BadJson,
   Json(KeysOld), Json(KeysRotated), Json(JsonObject), Json(JsonNull)}

\* CacheAfterFetch without line 40: the new key set under the old timestamp
CacheAfterFetchValueOnly(q, jwks) == [value |-> jwks, time |-> jwksCacheTime]

\* lines 38-40: the value and the timestamp the cache gets from a parsed body
CacheAfterFetch(q, jwks) == [value |-> jwks, time |-> q.now]

\* FetchReturn with a catch block that swallows the error and lets the request in
FetchReturnFailOpen(q, resp) ==
  IF resp.result = "json"
  THEN [q EXCEPT !.pc = "verifying", !.source = "fetched", !.jwks = resp.body]
  ELSE Admit([q EXCEPT !.source = "failed"])

\* FetchReturn with a catch block that falls back on the cached key set
FetchReturnStaleFallback(q, resp) ==
  IF resp.result = "json"
  THEN [q EXCEPT !.pc = "verifying", !.source = "fetched", !.jwks = resp.body]
  ELSE [q EXCEPT !.pc = "verifying", !.source = "failed", !.jwks = cachedJWKS]

\* lines 31-47, for the request q that was suspended at line 31
FetchReturn(q, resp) ==
  IF resp.result = "json"
  THEN [q EXCEPT !.pc = "verifying", !.source = "fetched", !.jwks = resp.body]
  ELSE Deny([q EXCEPT !.source = "failed"], DetailToken)

\* VerifyReturn that verifies against the cache as it is when jose is called,
\* not against the key set getCloudflareJWKS returned
VerifyReturnAgainstCache(q) ==
  IF /\ createLocalJWKSetOk(cachedJWKS)
     /\ jwtVerifyOk(q.jwt, cachedJWKS, IssuerOf(env.teamDomain), env.aud, clock)
  THEN Admit([q EXCEPT !.identity = JwtIdentity(q.jwt)])
  ELSE Deny(q, DetailToken)

\* VerifyReturn without the assignment of lines 195-201
VerifyReturnNoIdentity(q) ==
  IF /\ createLocalJWKSetOk(q.jwks)
     /\ jwtVerifyOk(q.jwt, q.jwks, IssuerOf(env.teamDomain), env.aud, clock)
  THEN Admit(q)
  ELSE Deny(q, DetailToken)

\* lines 66-75 and 195-223
VerifyReturn(q) ==
  IF /\ createLocalJWKSetOk(q.jwks)
     /\ jwtVerifyOk(q.jwt, q.jwks, IssuerOf(env.teamDomain), env.aud, clock)
  THEN Admit([q EXCEPT !.identity = JwtIdentity(q.jwt)])
  ELSE Deny(q, DetailToken)

-----------------------------------------------------------------------------
(* Actions *)

StartTime == JWKS_CACHE_TTL     \* Date.now() when the process starts
TickStep == JWKS_CACHE_TTL \div 2

\* a request reaches the middleware
Arrive(r, path, clientId, clientSecret, jwt) ==
  /\ reqs[r].pc = "idle"
  /\ reqs' = [reqs EXCEPT
                ![r] = cfAccessMiddleware(Request(path, clientId, clientSecret, jwt))]
  /\ arrived' = arrived + 1
  /\ UNCHANGED <<env, clock, cachedJWKS, jwksCacheTime, workerEnv, edge, old>>

\* lines 31-47 as one step: the cache and the request r after the answer
FetchDoneStep(r, resp) ==
  /\ reqs[r].pc = "fetching"
  /\ reqs' = [reqs EXCEPT ![r] = FetchReturn(reqs[r], resp)]
  /\ IF resp.result = "json"
     THEN /\ cachedJWKS' = CacheAfterFetch(reqs[r], resp.body).value
          /\ jwksCacheTime' = CacheAfterFetch(reqs[r], resp.body).time
     ELSE UNCHANGED <<cachedJWKS, jwksCacheTime>>
  /\ UNCHANGED <<env, clock, arrived, workerEnv, edge, old>>

\* FetchDone under a lock held across the fetch: one fetch at a time, in the
\* order of the slots
FetchDoneUnderLock(r, resp) ==
  /\ \A o \in Slots : o < r => reqs[o].pc # "fetching"
  /\ FetchDoneStep(r, resp)

\* the certs endpoint answers the fetch of request r; nothing but the
\* suspension of r itself guards it
FetchDone(r, resp) == FetchDoneStep(r, resp)

\* jose answers, the middleware decides
Verify(r) ==
  /\ reqs[r].pc = "verifying"
  /\ reqs' = [reqs EXCEPT ![r] = VerifyReturn(reqs[r])]
  /\ UNCHANGED <<env, clock, cachedJWKS, jwksCacheTime, arrived, workerEnv, edge, old>>

\* the response is out and the request object is dropped
Recycle(r) ==
  /\ reqs[r].pc = "done"
  /\ reqs' = [reqs EXCEPT ![r] = Idle]
  /\ UNCHANGED <<env, clock, cachedJWKS, jwksCacheTime, arrived, workerEnv, edge, old>>

\* time passes
Tick ==
  /\ clock < StartTime + MaxTicks * TickStep
  /\ clock' = clock + TickStep
  /\ UNCHANGED <<env, cachedJWKS, jwksCacheTime, reqs, arrived, workerEnv, edge, old>>

-----------------------------------------------------------------------------
(* The Cloudflare Worker in front of the gate (src/unnamed/part_001, the    *)
(* worker.js that injects the service token).  The Worker handles a request *)
(* in two steps: WorkerFetch builds the proxied request up to the           *)
(* suspension at `await fetch(proxyRequest)` (lines 26-77), then the        *)
(* response comes back (WorkerRespond, lines 77-90) or fetch throws         *)
(* (ProxyError, lines 92-98).                                               *)

\* the secrets of the Worker: env.CLOUD_RUN_URL, env.CF_ACCESS_CLIENT_ID and
\* env.CF_ACCESS_CLIENT_SECRET
WorkerEnv(url, id, secret) ==
  [cloudRunUrl |-> url, clientId |-> id, clientSecret |-> secret]

\* no Worker stands in front of the gate
NoWorker == WorkerEnv(Undefined, Undefined, Undefined)

\* The request the Worker has in hand: the path and the credential headers
\* the client sent, the two service-token headers of the proxied request and
\* the status of the response the Worker gives.
EdgeIdle ==
  [pc |-> "idle",               \* idle | forwarding | responded
   path |-> <<>>, clientId |-> Undefined, clientSecret |-> Undefined,
   jwt |-> JwtAbsent,
   fwdClientId |-> Undefined, fwdClientSecret |-> Undefined,
   built |-> 0,                 \* proxied requests built (line 69)
   fetches |-> 0,               \* calls of fetch(proxyRequest) (line 77)
   outcome |-> "none",          \* none | misconfigured | threw | relayed
   upstreamStatus |-> 0,        \* response.status, once there is a response
   upstreamHeaders |-> {},      \* the names of response.headers
   headers |-> {},              \* the header names of the Worker's response
   status |-> 0]

\* env.CLOUD_RUN_URL as the secret should be, and with the scheme left out:
\* new URL(path, base) throws a TypeError on a base that is no absolute URL
UrlValid == "https://app.run.app"
UrlNoScheme == "app.run.app"
ParsesAsUrl(u) == u # UrlNoScheme

\* the headers of the two plain-text responses (lines 33 and 96)
PlainTextHeaders == {"content-type"}

\* RelayHeaders that copies the upstream headers as they are
RelayHeadersKeepAll(h) == h

\* lines 80-84: the response headers, less cf-ray and cf-cache-status
RelayHeaders(h) == h \ {"cf-ray", "cf-cache-status"}

\* InjectServiceToken that leaves a header of the client in place
InjectServiceTokenIfAbsent(id, secret, workerId, workerSecret) ==
  IF ~Falsy(workerId) /\ ~Falsy(workerSecret)
  THEN <<IF id = Undefined THEN workerId ELSE id,
         IF secret = Undefined THEN workerSecret ELSE secret>>
  ELSE <<id, secret>>

\* lines 49 and 63-66: the CF-Access-Client-Id and CF-Access-Client-Secret
\* headers of the proxied request, from those of the client (id, secret)
InjectServiceToken(id, secret, workerId, workerSecret) ==
  IF ~Falsy(workerId) /\ ~Falsy(workerSecret)
  THEN <<workerId, workerSecret>>
  ELSE <<id, secret>>

\* lines 26-77: a client request reaches the Worker
WorkerFetch(path, id, secret, jwt) ==
  /\ edge.pc = "idle"
  /\ edge' =
       LET e == [edge EXCEPT !.path = path, !.clientId = id,
                             !.clientSecret = secret, !.jwt = jwt]
           h == InjectServiceToken(id, secret,
                                   workerEnv.clientId, workerEnv.clientSecret)
       IN
       IF Falsy(workerEnv.cloudRunUrl)
       THEN [e EXCEPT !.pc = "responded", !.outcome = "misconfigured",
                      !.status = 500, !.headers = PlainTextHeaders]
       ELSE IF ~ParsesAsUrl(workerEnv.cloudRunUrl)
       THEN [e EXCEPT !.pc = "responded", !.outcome = "threw",
                      !.status = 502, !.headers = PlainTextHeaders]
       ELSE [e EXCEPT !.pc = "forwarding",
                      !.fwdClientId = h[1], !.fwdClientSecret = h[2],
                      !.built = 1, !.fetches = 1]
  /\ UNCHANGED <<env, clock, cachedJWKS, jwksCacheTime, reqs, arrived, workerEnv, old>>

\* the proxied request reaches the gate: every other header is a copy of the
\* client's (line 49)
Deliver ==
  /\ edge.pc = "forwarding"
  /\ arrived = 0
  /\ Arrive(1, edge.path, edge.fwdClientId, edge.fwdClientSecret, edge.jwt)

\* lines 77-90: the response comes back and is relayed.  The gate's 403 is
\* the response of a refused request; an admitted request is answered by the
\* application behind the gate, with appStatus.  upstream are the names of
\* the headers of the response.
WorkerRespond(appStatus, upstream) ==
  /\ edge.pc = "forwarding"
  /\ reqs[1].pc = "done"
  /\ edge' =
       LET status == IF reqs[1].status = 403 THEN 403 ELSE appStatus IN
       [edge EXCEPT !.pc = "responded", !.outcome = "relayed",
                    !.upstreamStatus = status, !.upstreamHeaders = upstream,
                    !.status = status, !.headers = RelayHeaders(upstream)]
  /\ UNCHANGED <<env, clock, cachedJWKS, jwksCacheTime, reqs, arrived, workerEnv, old>>

\* lines 77 and 92-98: fetch(proxyRequest) throws
ProxyError ==
  /\ edge.pc = "forwarding"
  /\ edge' = [edge EXCEPT !.pc = "responded", !.outcome = "threw",
                          !.status = 502, !.headers = PlainTextHeaders]
  /\ UNCHANGED <<env, clock, cachedJWKS, jwksCacheTime, reqs, arrived, workerEnv, old>>

-----------------------------------------------------------------------------
(* The assertion-only middleware, the earlier version of the file            *)
(* (src/unnamed/part_000, lines 226-402).  Its helpers (lines 233-325) are   *)
(* line for line those of the later version; it is a module of its own, with *)
(* its own cachedJWKS and jwksCacheTime, kept in the variable `old`.         *)

\* the earlier version before any request: lines 233-234
OldIdle == [cachedJWKS |-> JsonNull, jwksCacheTime |-> 0, req |-> Idle]

\* lines 374-379: the identity has no type property
JwtIdentityOld(token) == [JwtIdentity(token) EXCEPT !.type = Undefined]

\* lines 241-256 of getCloudflareJWKS, up to the first await
getCloudflareJWKSOld(q0) ==
  LET now == clock
      q == [Consult(q0, "cache") EXCEPT !.now = now]
  IN
  IF CacheFresh(old.cachedJWKS, old.jwksCacheTime, now)
  THEN [q EXCEPT !.pc = "verifying", !.source = "cache", !.jwks = old.cachedJWKS]
  ELSE IF Falsy(env.teamDomain)
  THEN Deny([q EXCEPT !.source = "failed"], DetailToken)
  ELSE [q EXCEPT !.pc = "fetching", !.source = "pending", !.calls = q.calls + 1]

\* lines 281-290 of verifyCloudflareAccessToken
verifyCloudflareAccessTokenOld(q0) ==
  LET q == Consult(q0, "verify") IN
  IF Falsy(env.teamDomain) \/ Falsy(env.aud)
  THEN Deny(q, DetailToken)
  ELSE getCloudflareJWKSOld(q)

\* lines 336-371: cfAccessMiddleware from its entry to its first suspension
\* or its return
cfAccessMiddlewareOld(q0) ==
  LET q1 == Consult(q0, "enabled") IN
  IF ~env.enabled THEN Admit(q1)
  ELSE LET q2 == Consult(q1, "bypass") IN
       IF shouldBypassAuth(q2.path, env.bypassPaths) THEN Admit(q2)
       ELSE LET q3 == Consult(q2, "assertion") IN
            IF JwtFalsy(q3.jwt) THEN Deny(q3, DetailMissing)
            ELSE verifyCloudflareAccessTokenOld(q3)

\* lines 256-272, for the request q that was suspended at line 256
FetchReturnOld(q, resp) ==
  IF resp.result = "json"
  THEN [q EXCEPT !.pc = "verifying", !.source = "fetched", !.jwks = resp.body]
  ELSE Deny([q EXCEPT !.source = "failed"], DetailToken)

\* lines 291-300 and 374-401
VerifyReturnOld(q) ==
  IF /\ createLocalJWKSetOk(q.jwks)
     /\ jwtVerifyOk(q.jwt, q.jwks, IssuerOf(env.teamDomain), env.aud, clock)
  THEN Admit([q EXCEPT !.identity = JwtIdentityOld(q.jwt)])
  ELSE Deny(q, DetailToken)

\* The two versions side by side.  The same request reaches both in one step;
\* the certs endpoint gives the same answer to the fetch of the one and of
\* the other; jose answers both.

ArrivePair(path, clientId, clientSecret, jwt) ==
  /\ reqs[1].pc = "idle" /\ old.req.pc = "idle"
  /\ arrived = 0
  /\ reqs' = [reqs EXCEPT
                ![1] = cfAccessMiddleware(Request(path, clientId, clientSecret, jwt))]
  /\ old' = [old EXCEPT
               !.req = cfAccessMiddlewareOld(Request(path, clientId, clientSecret, jwt))]
  /\ arrived' = arrived + 1
  /\ UNCHANGED <<env, clock, cachedJWKS, jwksCacheTime, workerEnv, edge>>

FetchDonePair(resp) ==
  /\ reqs[1].pc = "fetching" \/ old.req.pc = "fetching"
  /\ IF reqs[1].pc = "fetching"
     THEN /\ reqs' = [reqs EXCEPT ![1] = FetchReturn(reqs[1], resp)]
          /\ IF resp.result = "json"
             THEN /\ cachedJWKS' = CacheAfterFetch(reqs[1], resp.body).value
                  /\ jwksCacheTime' = CacheAfterFetch(reqs[1], resp.body).time
             ELSE UNCHANGED <<cachedJWKS, jwksCacheTime>>
     ELSE UNCHANGED <<reqs, cachedJWKS, jwksCacheTime>>
  /\ IF old.req.pc = "fetching"
     THEN old' =
            IF resp.result = "json"
            THEN [cachedJWKS |-> resp.body, jwksCacheTime |-> old.req.now,
                  req |-> FetchReturnOld(old.req, resp)]
            ELSE [old EXCEPT !.req = FetchReturnOld(old.req, resp)]
     ELSE UNCHANGED old
  /\ UNCHANGED <<env, clock, arrived, workerEnv, edge>>

VerifyPair ==
  /\ reqs[1].pc = "verifying" \/ old.req.pc = "verifying"
  /\ IF reqs[1].pc = "verifying"
     THEN reqs' = [reqs EXCEPT ![1] = VerifyReturn(reqs[1])]
     ELSE UNCHANGED reqs
  /\ IF old.req.pc = "verifying"
     THEN old' = [old EXCEPT !.req = VerifyReturnOld(old.req)]
     ELSE UNCHANGED old
  /\ UNCHANGED <<env, clock, cachedJWKS, jwksCacheTime, arrived, workerEnv, edge>>

-----------------------------------------------------------------------------
(* Configurations and workloads *)

Env(enabled, teamDomain, aud, id, secret, bypass) ==
  [enabled |-> enabled, teamDomain |-> teamDomain, aud |-> aud,
   serviceTokenId |-> id, serviceTokenSecret |-> secret, bypassPaths |-> bypass]

Rules == <<RuleExact, RuleWildcard>>

AllEnvs ==
  {Env(e, t, a, i, s, b) :
     e \in BOOLEAN, t \in {Undefined, "team"}, a \in {Undefined, "aud-1"},
     i \in {Undefined, "id-1"}, s \in {Undefined, "secret-1"},
     b \in {BypassUnset, BypassList(Rules)}}

ConfiguredEnv == Env(TRUE, "team", "aud-1", "id-1", "secret-1", BypassList(Rules))

HeaderValues == {Undefined, "", "id-1", "secret-1"}
JwtValues ==
  {JwtAbsent, JwtEmpty, TokGood, TokKey2, TokMalformed,
   TokForged, TokBadIss, TokBadAud, TokExpired, TokNoEmail}

TypeOK ==
  /\ env.enabled \in BOOLEAN
  /\ edge.pc \in {"idle", "forwarding", "responded"}
  /\ clock \in Nat /\ jwksCacheTime \in Nat /\ arrived \in Nat
  /\ \A r \in Slots : reqs[r].pc \in {"idle", "fetching", "verifying", "done"}

\* Specification Spec: concurrent requests against the shared cache, with the
\* gate enabled and fully configured.
Init ==
  /\ env = ConfiguredEnv
  /\ clock = StartTime
  /\ cachedJWKS = JsonNull
  /\ jwksCacheTime = 0
  /\ reqs = [r \in Slots |-> Idle]
  /\ arrived = 0
  /\ workerEnv = NoWorker
  /\ edge = EdgeIdle
  /\ old = OldIdle

\* a new request takes the lowest free slot
FreeSlot(r) == reqs[r].pc = "idle" /\ \A o \in Slots : o < r => reqs[o].pc # "idle"

\* The requests of the concurrent specification: one per path of the gate.
\* TokKey2 is rejected under KeysOld and accepted under KeysRotated.
Workload ==
  {<<PathSecure, Undefined, Undefined, TokKey2>>,
   <<PathSecure, Undefined, Undefined, JwtAbsent>>,
   <<PathSecure, "id-1", "secret-1", TokGood>>,
   <<PathHealth, Undefined, Undefined, JwtAbsent>>}

Receive ==
  \E r \in Slots, w \in Workload :
    /\ arrived < MaxArrivals
    /\ FreeSlot(r)
    /\ Arrive(r, w[1], w[2], w[3], w[4])

Answer == \E r \in Slots, resp \in FetchResults : FetchDone(r, resp)
Decide == \E r \in Slots : Verify(r)
Drop == \E r \in Slots : Recycle(r)

Next == Receive \/ Answer \/ Decide \/ Drop \/ Tick

Spec == Init /\ [][Next]_vars

\* Specification SpecGate: one request at a time, under every configuration,
\* with every combination of headers, against an empty, a fresh and an
\* expired cache.
InitCaches ==
  {[value |-> JsonNull, time |-> 0],
   [value |-> KeysOld, time |-> StartTime],
   [value |-> KeysOld, time |-> 0]}

InitGate ==
  /\ env \in AllEnvs
  /\ clock = StartTime
  /\ \E c \in InitCaches : cachedJWKS = c.value /\ jwksCacheTime = c.time
  /\ reqs = [r \in Slots |-> Idle]
  /\ arrived = 0
  /\ workerEnv = NoWorker
  /\ edge = EdgeIdle
  /\ old = OldIdle

ReceiveOne ==
  \E path \in {PathSecure, PathHealth, PathHealthExact},
     id \in HeaderValues, secret \in HeaderValues, jwt \in JwtValues :
    /\ arrived = 0
    /\ Arrive(1, path, id, secret, jwt)

NextGate == ReceiveOne \/ Answer \/ Decide

SpecGate == InitGate /\ [][NextGate]_vars

\* Specification SpecBypass: shouldBypassAuth on its own.  The gate is
\* enabled and configured, the bypass list is unset or any list of at most
\* MaxRules rules, and one request with no credentials is received.
BypassRules ==
  {RuleHealthWildcard, RuleHealthPrefix, RuleHealthBare, RuleStar, RuleInnerStar}

RuleLists == UNION {[1..n -> BypassRules] : n \in 0..MaxRules}

BypassConfigs == {BypassUnset} \cup {BypassList(l) : l \in RuleLists}

MatchPaths ==
  {PathHealthSlash, PathHealthLive, PathHealthy, PathHealthBare, PathStarLive,
   PathSecure}

InitBypass ==
  /\ env \in {Env(TRUE, "team", "aud-1", "id-1", "secret-1", b) : b \in BypassConfigs}
  /\ clock = StartTime
  /\ cachedJWKS = JsonNull
  /\ jwksCacheTime = 0
  /\ reqs = [r \in Slots |-> Idle]
  /\ arrived = 0
  /\ workerEnv = NoWorker
  /\ edge = EdgeIdle
  /\ old = OldIdle

ReceivePath ==
  \E path \in MatchPaths :
    /\ arrived = 0
    /\ Arrive(1, path, Undefined, Undefined, JwtAbsent)

NextBypass == ReceivePath

SpecBypass == InitBypass /\ [][NextBypass]_vars

\* Specification SpecEdge: one client request through the Worker to the
\* gate, under every combination of Worker secrets and of gate settings.
EdgeEnvs ==
  {Env(e, "team", "aud-1", i, s, b) :
     e \in BOOLEAN, i \in {Undefined, "id-1"}, s \in {"secret-1", "secret-2"},
     b \in {BypassUnset, BypassList(Rules)}}

WorkerEnvs ==
  {WorkerEnv(u, i, s) :
     u \in {Undefined, UrlValid, UrlNoScheme},
     i \in {Undefined, "", "id-1"}, s \in {Undefined, "", "secret-1"}}

InitEdge ==
  /\ env \in EdgeEnvs
  /\ workerEnv \in WorkerEnvs
  /\ clock = StartTime
  /\ \E c \in InitCaches : cachedJWKS = c.value /\ jwksCacheTime = c.time
  /\ reqs = [r \in Slots |-> Idle]
  /\ arrived = 0
  /\ edge = EdgeIdle
  /\ old = OldIdle

Accept ==
  \E path \in {PathSecure, PathHealth},
     id \in {Undefined, "id-1", "id-2"},
     secret \in {Undefined, "secret-1", "secret-2"},
     jwt \in {JwtAbsent, TokGood} :
    WorkerFetch(path, id, secret, jwt)

\* what the application answers to an admitted request
AppStatuses == {200, 404, 500}

UpstreamHeaderSets ==
  {{"content-type"},
   {"content-type", "cf-ray", "cf-cache-status"},
   {"content-type", "cf-ray", "set-cookie", "x-cf-trace"}}

Relay ==
  \E appStatus \in AppStatuses, upstream \in UpstreamHeaderSets :
    WorkerRespond(appStatus, upstream)

NextEdge ==
  Accept \/ Deliver \/ Answer \/ Decide \/ Relay \/ ProxyError

SpecEdge == InitEdge /\ [][NextEdge]_vars

\* Specification SpecPair: one request given to the two versions of the
\* middleware, under every configuration, with every combination of
\* headers, each version starting from the same cache entry.
InitPair ==
  /\ env \in AllEnvs
  /\ clock = StartTime
  /\ \E c \in InitCaches :
       /\ cachedJWKS = c.value /\ jwksCacheTime = c.time
       /\ old = [cachedJWKS |-> c.value, jwksCacheTime |-> c.time, req |-> Idle]
  /\ reqs = [r \in Slots |-> Idle]
  /\ arrived = 0
  /\ workerEnv = NoWorker
  /\ edge = EdgeIdle

ReceivePair ==
  \E path \in {PathSecure, PathHealth, PathHealthExact},
     id \in HeaderValues, secret \in HeaderValues, jwt \in JwtValues :
    ArrivePair(path, id, secret, jwt)

AnswerPair == \E resp \in FetchResults : FetchDonePair(resp)

NextPair == ReceivePair \/ AnswerPair \/ VerifyPair

SpecPair == InitPair /\ [][NextPair]_vars

-----------------------------------------------------------------------------
(* The gate, one request at a time (specification SpecGate) *)

\* the request of slot r is decided and the gate had to authenticate it
Gated(q) ==
  q.pc = "done" /\ env.enabled /\ ~shouldBypassAuth(q.path, env.bypassPaths)

\* both service-token headers are there and equal the configured pair
ServiceTokenMatches(q) ==
  /\ q.clientId # Undefined /\ q.clientSecret # Undefined
  /\ env.serviceTokenId # Undefined /\ env.serviceTokenSecret # Undefined
  /\ q.clientId = env.serviceTokenId
  /\ q.clientSecret = env.serviceTokenSecret

\* the assertion of q passes every check against the key set q obtained
AssertionHolds(q) ==
  /\ q.jwt.hdr = "value"
  /\ env.teamDomain # Undefined /\ env.aud # Undefined
  /\ q.source \in {"cache", "fetched"}
  /\ q.jwks.kind = "jwks"
  /\ q.jwt.wellFormed
  /\ q.jwt.kid \in q.jwks.keys /\ q.jwt.signer = q.jwt.kid
  /\ q.jwt.iss = IssuerOf(env.teamDomain)
  /\ env.aud \in q.jwt.aud
  /\ q.jwt.exp > q.now \div 1000

\* C1: fail-closed.  With the gate enabled and the path not bypassed, a
\* request is admitted only if its service-token headers equal the configured
\* pair or its assertion was verified against an obtained key set with team
\* domain and audience configured; on the assertion path missing
\* configuration, a failed key fetch or a malformed token end in a 403.
C1_FailClosed ==
  \A r \in Slots :
    LET q == reqs[r] IN
    Gated(q) =>
      /\ q.status \in {200, 403}
      /\ q.status = 200 => ServiceTokenMatches(q) \/ AssertionHolds(q)
      /\ ( /\ Did(q, "verify")
           /\ \/ env.teamDomain = Undefined
              \/ env.aud = Undefined
              \/ q.source = "failed"
              \/ ~q.jwt.wellFormed )
         => q.status = 403 /\ q.identity = NoIdentity

\* a well-formed token whose key fetch failed is refused
C1_Witness ==
  \E r \in Slots :
    /\ Gated(reqs[r])
    /\ reqs[r].jwt = TokGood
    /\ reqs[r].source = "failed"
    /\ reqs[r].status = 403

\* q carries both service-token headers (a header may be empty)
CarriesBoth(q) == q.clientId # Undefined /\ q.clientSecret # Undefined

\* q carries both service-token headers, neither of them empty
CarriesBothNonEmpty(q) ==
  CarriesBoth(q) /\ q.clientId # "" /\ q.clientSecret # ""

\* the decision the service-token path owes to q
ServiceTokenDecision(q) ==
  /\ q.pc = "done"
  /\ ~Did(q, "assertion") /\ ~Did(q, "verify") /\ ~Did(q, "cache")
  /\ IF ServiceTokenMatches(q)
     THEN q.status = 200 /\ q.identity = ServiceTokenIdentity(q.clientId)
     ELSE /\ q.status = 403 /\ q.detail = DetailServiceToken
          /\ q.identity = NoIdentity

\* C2 as stated: every non-bypassed request on an enabled gate that carries
\* both service-token headers gets the decision of the service-token path and
\* its assertion is never verified.
C2_Original ==
  \A r \in Slots :
    LET q == reqs[r] IN
    (q.pc # "idle" /\ env.enabled /\ ~shouldBypassAuth(q.path, env.bypassPaths)
       /\ CarriesBoth(q))
    => ServiceTokenDecision(q)

\* C2 amended: the same, for requests whose two service-token headers are
\* both non-empty; a request with an empty one is handled on the assertion
\* path.
C2_ServiceTokenCommits ==
  \A r \in Slots :
    LET q == reqs[r] IN
    (q.pc # "idle" /\ env.enabled /\ ~shouldBypassAuth(q.path, env.bypassPaths))
    => /\ CarriesBothNonEmpty(q) => ServiceTokenDecision(q)
       /\ (CarriesBoth(q) /\ ~CarriesBothNonEmpty(q)) => Did(q, "assertion")

\* right id, wrong secret and a valid assertion: refused as a service token
C2_Witness ==
  \E r \in Slots :
    /\ Gated(reqs[r])
    /\ reqs[r].clientId = "id-1" /\ reqs[r].clientSecret = "id-1"
    /\ env.serviceTokenId = "id-1" /\ env.serviceTokenSecret = "secret-1"
    /\ reqs[r].jwt = TokGood
    /\ CacheFresh(cachedJWKS, jwksCacheTime, clock)
    /\ reqs[r].status = 403 /\ reqs[r].detail = DetailServiceToken

\* the assertion of q played no part
AssertionUntouched(q) ==
  /\ ~Did(q, "assertion") /\ ~Did(q, "verify") /\ ~Did(q, "cache")
  /\ q.source = "none" /\ q.calls = 0
  /\ q.identity.type # "jwt"

\* C3 as stated: for a request that carries a client-id header or a
\* client-secret header (one alone, both, or an empty one) the assertion
\* header is never read or verified and never admits the request.
C3_Original ==
  \A r \in Slots :
    LET q == reqs[r] IN
    (q.pc # "idle" /\ (q.clientId # Undefined \/ q.clientSecret # Undefined))
    => AssertionUntouched(q)

\* C3 amended: the assertion is read only when the request does not carry
\* both service-token headers with non-empty values; a request that carries
\* both never has its assertion read or verified, and a request with one
\* header alone or an empty one is handled as if it had none.
C3_AssertionOnlyWithoutPair ==
  \A r \in Slots :
    LET q == reqs[r] IN
    (q.pc # "idle") =>
      /\ CarriesBothNonEmpty(q) => AssertionUntouched(q)
      /\ Did(q, "assertion") => ~CarriesBothNonEmpty(q)
      /\ (env.enabled /\ ~shouldBypassAuth(q.path, env.bypassPaths)
            /\ ~CarriesBothNonEmpty(q))
         => Did(q, "assertion") /\ ~Did(q, "service-token")

\* a client-id header alone, admitted on the strength of the assertion
C3_Witness ==
  \E r \in Slots :
    /\ reqs[r].pc = "done"
    /\ reqs[r].clientId = "id-1" /\ reqs[r].clientSecret = Undefined
    /\ reqs[r].status = 200 /\ reqs[r].identity.type = "jwt"

\* C4: with the enable flag off every request is admitted whatever its path
\* and headers, with no identity and no 403, and nothing but the flag is
\* consulted: no path match, no service-token check, no verifier, no cache.
C4_DisabledAdmitsAll ==
  ~env.enabled =>
    \A r \in Slots :
      LET q == reqs[r] IN
      q.pc # "idle" =>
        /\ q.pc = "done" /\ q.status = 200
        /\ q.identity = NoIdentity /\ q.detail = DetailNone
        /\ q.checks = <<"enabled">>
        /\ q.source = "none" /\ q.calls = 0

\* gate off: wrong service-token headers and a malformed assertion get in
C4_Witness ==
  /\ ~env.enabled
  /\ \E r \in Slots :
       /\ reqs[r].status = 200
       /\ reqs[r].path = PathSecure
       /\ reqs[r].clientId = "secret-1" /\ reqs[r].clientSecret = "id-1"
       /\ reqs[r].jwt = TokMalformed

\* C5: with the gate enabled a request whose path shouldBypassAuth admits is
\* admitted with no identity whatever credentials it carries; the bypass
\* check comes before every credential check.
C5_BypassAdmits ==
  env.enabled =>
    \A r \in Slots :
      LET q == reqs[r] IN
      (q.pc # "idle" /\ shouldBypassAuth(q.path, env.bypassPaths)) =>
        /\ q.pc = "done" /\ q.status = 200
        /\ q.identity = NoIdentity /\ q.detail = DetailNone
        /\ q.checks = <<"enabled", "bypass">>
        /\ q.source = "none" /\ q.calls = 0

\* a bypassed path with wrong service-token headers and a malformed assertion
C5_Witness ==
  /\ env.enabled
  /\ env.serviceTokenId = "id-1" /\ env.serviceTokenSecret = "secret-1"
  /\ \E r \in Slots :
       /\ reqs[r].status = 200
       /\ reqs[r].path = PathHealth
       /\ reqs[r].clientId = "secret-1" /\ reqs[r].clientSecret = "id-1"
       /\ reqs[r].jwt = TokMalformed

-----------------------------------------------------------------------------
(* The key cache under concurrent requests (specification Spec) *)

\* request r enters getCloudflareJWKS in this step
CallsCache(r) ==
  reqs[r].pc = "idle" /\ reqs'[r].pc # "idle" /\ Did(reqs'[r], "cache")

\* C6: the TTL window.  With an entry cached at time T, a call of
\* getCloudflareJWKS at a time in [T, T + TTL) returns that entry and makes
\* no network call; a call at T + TTL or later, or with no entry, makes
\* exactly one call of fetch; a request never makes a second one.
C6_TtlWindow ==
  [][\A r \in Slots :
       /\ CallsCache(r) =>
            IF /\ Truthy(cachedJWKS)
               /\ clock >= jwksCacheTime
               /\ clock < jwksCacheTime + JWKS_CACHE_TTL
            THEN /\ reqs'[r].source = "cache"
                 /\ reqs'[r].jwks = cachedJWKS
                 /\ reqs'[r].calls = 0
            ELSE /\ reqs'[r].pc = "fetching"
                 /\ reqs'[r].source = "pending"
                 /\ reqs'[r].calls = 1
       /\ (reqs[r].pc # "idle" /\ reqs'[r].pc # "idle")
            => reqs'[r].calls = reqs[r].calls
    ]_vars

\* one request served from the cache half a TTL after the entry was fetched,
\* another one fetching at the boundary instant T + TTL
C6_Witness ==
  /\ Truthy(cachedJWKS)
  /\ \E h, m \in Slots :
       /\ reqs[h].source = "cache" /\ reqs[h].calls = 0
       /\ reqs[h].now = jwksCacheTime + TickStep
       /\ reqs[m].pc = "fetching" /\ reqs[m].calls = 1
       /\ reqs[m].now = jwksCacheTime + JWKS_CACHE_TTL

\* C7 as stated: whenever a fetch does not yield a usable key set (non-2xx,
\* network error, unparsable body, or a JSON body that is no key set) the
\* cache keeps its value and timestamp and the caller gets an error.
C7_Original ==
  [][\A r \in Slots :
       (reqs[r].pc = "fetching" /\ reqs'[r].pc # "fetching"
          /\ reqs'[r].jwks.kind # "jwks")
       => /\ cachedJWKS' = cachedJWKS /\ jwksCacheTime' = jwksCacheTime
          /\ reqs'[r].source = "failed"
          /\ reqs'[r].pc = "done" /\ reqs'[r].status = 403
    ]_vars

\* C8: a stale entry is never served.  The cache is returned only while
\* now - jwksCacheTime < TTL; a call that finds the entry stale attempts a
\* fetch; when that fetch fails the request is denied, is not given the old
\* key set and the cache is left as it was, so that the next call fetches
\* again.
C8_NeverStale ==
  [][\A r \in Slots :
       /\ (reqs[r].pc = "idle" /\ reqs'[r].source = "cache")
            => /\ Truthy(cachedJWKS)
               /\ reqs'[r].jwks = cachedJWKS
               /\ reqs'[r].now - jwksCacheTime < JWKS_CACHE_TTL
       /\ (CallsCache(r) /\ Truthy(cachedJWKS)
             /\ clock - jwksCacheTime >= JWKS_CACHE_TTL)
            => reqs'[r].pc = "fetching" /\ reqs'[r].calls = 1
       /\ (reqs[r].pc = "fetching" /\ reqs'[r].source = "failed")
            => /\ reqs'[r].pc = "done" /\ reqs'[r].status = 403
               /\ reqs'[r].identity = NoIdentity
               /\ reqs'[r].jwks = JsonNull
               /\ cachedJWKS' = cachedJWKS /\ jwksCacheTime' = jwksCacheTime
    ]_vars

\* the entry is stale, one refresh has failed and its request is denied, and
\* a later request is fetching again
C8_Witness ==
  /\ Truthy(cachedJWKS)
  /\ \E f, n \in Slots :
       /\ reqs[f].source = "failed" /\ reqs[f].status = 403
       /\ reqs[f].now - jwksCacheTime >= JWKS_CACHE_TTL
       /\ reqs[n].pc = "fetching"
       /\ reqs[n].now > reqs[f].now

\* C9: the cache entry is replaced atomically.  The pair (cachedJWKS,
\* jwksCacheTime) starts as (null, 0) and every step that changes either of
\* them writes both, from one successful fetch: the key set that fetch
\* received and the `now` of the call that issued it.
C9_AtomicReplace ==
  /\ cachedJWKS = JsonNull /\ jwksCacheTime = 0
  /\ [][(cachedJWKS' # cachedJWKS \/ jwksCacheTime' # jwksCacheTime)
          => \E r \in Slots :
               /\ reqs[r].pc = "fetching"
               /\ reqs'[r].source = "fetched"
               /\ cachedJWKS' = reqs'[r].jwks
               /\ jwksCacheTime' = reqs[r].now
       ]_vars

\* a reader still holds the old complete entry while the cache holds the new
\* one, written by a later fetch
C9_Witness ==
  /\ cachedJWKS = KeysRotated
  /\ \E o, n \in Slots :
       /\ reqs[o].pc = "verifying" /\ reqs[o].source = "cache"
       /\ reqs[o].jwks = KeysOld
       /\ reqs[n].source = "fetched" /\ reqs[n].jwks = KeysRotated
       /\ reqs[n].now = jwksCacheTime
       /\ jwksCacheTime > reqs[o].now

-----------------------------------------------------------------------------
(* Key rotation (specification Spec) *)

\* C11: a token whose key id is not in the key set the request obtained
\* (from the cache or from its own fetch) is refused with the invalid-token
\* 403 and no identity, though issuer, audience and expiry are valid; a call
\* that finds the cache fresh takes the cached key set also when the key is
\* not in it, makes no fetch then or later, and its refusal leaves the cache
\* as it was.
C11_UnknownKeyRejected ==
  /\ [](\A r \in Slots :
          LET q == reqs[r] IN
          /\ (q.pc = "done" /\ q.source \in {"cache", "fetched"}
                /\ q.jwt.kid \notin q.jwks.keys)
             => /\ q.status = 403 /\ q.detail = DetailToken
                /\ q.identity = NoIdentity
          /\ q.source = "cache" => q.calls = 0)
  /\ [][\A r \in Slots :
          /\ (CallsCache(r) /\ CacheFresh(cachedJWKS, jwksCacheTime, clock)
                /\ reqs'[r].jwt.kid \notin cachedJWKS.keys)
             => /\ reqs'[r].pc = "verifying" /\ reqs'[r].source = "cache"
                /\ reqs'[r].jwks = cachedJWKS /\ reqs'[r].calls = 0
          /\ (reqs[r].pc = "verifying" /\ reqs'[r].pc = "done"
                /\ reqs[r].jwt.kid \notin reqs[r].jwks.keys)
             => /\ reqs'[r].status = 403
                /\ reqs'[r].calls = reqs[r].calls
                /\ cachedJWKS' = cachedJWKS /\ jwksCacheTime' = jwksCacheTime
       ]_vars

\* a token signed with the new key k2, with valid claims, refused on the
\* strength of a fresh cache entry that holds k1 only, with no fetch made
C11_Witness ==
  /\ cachedJWKS = KeysOld
  /\ CacheFresh(cachedJWKS, jwksCacheTime, clock)
  /\ \E r \in Slots :
       /\ reqs[r].jwt = TokKey2
       /\ reqs[r].jwt.iss = IssuerOf(env.teamDomain)
       /\ env.aud \in reqs[r].jwt.aud
       /\ reqs[r].jwt.exp > clock \div 1000
       /\ reqs[r].source = "cache" /\ reqs[r].jwks = KeysOld
       /\ reqs[r].calls = 0
       /\ reqs[r].status = 403 /\ reqs[r].detail = DetailToken

-----------------------------------------------------------------------------
(* Verification of the assertion (specification SpecGate) *)

\* the assertion of q is signed by a key of the key set q obtained
SignatureHolds(q) ==
  /\ q.source \in {"cache", "fetched"}
  /\ q.jwks.kind = "jwks"
  /\ q.jwt.wellFormed
  /\ q.jwt.kid \in q.jwks.keys
  /\ q.jwt.signer = q.jwt.kid

IssuerHolds(q) ==
  env.teamDomain # Undefined /\ q.jwt.iss = IssuerOf(env.teamDomain)

AudienceHolds(q) == env.aud # Undefined /\ env.aud \in q.jwt.aud

NotExpired(q) == q.jwt.exp > clock \div 1000

\* C12: verification is all-or-nothing.  A request decided on the assertion
\* path is admitted only if the signature, the issuer, the audience and the
\* expiry all hold, and then carries the jwt identity; a token that went to
\* verification and fails any one of the four is refused with the
\* invalid-token 403 and no identity.
C12_AllOrNothing ==
  \A r \in Slots :
    LET q == reqs[r] IN
    (Gated(q) /\ ~ServiceTokenPresented(q)) =>
      /\ q.status = 200 =>
           /\ SignatureHolds(q) /\ IssuerHolds(q)
           /\ AudienceHolds(q) /\ NotExpired(q)
           /\ q.identity = JwtIdentity(q.jwt)
      /\ ( /\ ~JwtFalsy(q.jwt)
           /\ \/ ~SignatureHolds(q) \/ ~IssuerHolds(q)
              \/ ~AudienceHolds(q) \/ ~NotExpired(q) )
         => /\ q.status = 403 /\ q.detail = DetailToken
            /\ q.identity = NoIdentity

\* a token with a good signature, the right issuer and a future expiry but
\* another audience is refused
C12_Witness ==
  \E r \in Slots :
    LET q == reqs[r] IN
    /\ Gated(q) /\ q.jwt = TokBadAud
    /\ SignatureHolds(q) /\ IssuerHolds(q) /\ NotExpired(q)
    /\ ~AudienceHolds(q) /\ env.aud # Undefined
    /\ q.status = 403 /\ q.detail = DetailToken /\ q.identity = NoIdentity

\* C13: configuration failure is fast and fail-closed.  With the team
\* domain or the audience not configured, a request that reaches
\* verifyCloudflareAccessToken is refused in the step it arrives in, with the
\* invalid-token 403 and no identity, before getCloudflareJWKS is entered: no
\* fetch is made and the cache keeps its value and its timestamp, be the
\* entry fresh, stale or absent.  This holds for every request on the
\* assertion path that carries an assertion.
C13_ConfigFailsFast ==
  [][\A r \in Slots :
       LET q == reqs'[r] IN
       ( /\ reqs[r].pc = "idle" /\ q.pc # "idle"
         /\ env.enabled /\ ~shouldBypassAuth(q.path, env.bypassPaths)
         /\ ~ServiceTokenPresented(q) /\ ~JwtFalsy(q.jwt)
         /\ (Falsy(env.teamDomain) \/ Falsy(env.aud)) )
       => /\ Did(q, "verify") /\ ~Did(q, "cache")
          /\ q.pc = "done" /\ q.status = 403 /\ q.detail = DetailToken
          /\ q.identity = NoIdentity
          /\ q.source = "none" /\ q.calls = 0 /\ q.jwks = JsonNull
          /\ cachedJWKS' = cachedJWKS /\ jwksCacheTime' = jwksCacheTime
    ]_vars

\* the audience is not configured, the cache holds a fresh key set with the
\* key of a token that is valid in every respect: refused, cache not read
C13_Witness ==
  /\ env.teamDomain = "team" /\ env.aud = Undefined
  /\ cachedJWKS = KeysOld /\ CacheFresh(cachedJWKS, jwksCacheTime, clock)
  /\ \E r \in Slots :
       /\ Gated(reqs[r]) /\ reqs[r].jwt = TokGood
       /\ ~ServiceTokenPresented(reqs[r])
       /\ Did(reqs[r], "verify") /\ ~Did(reqs[r], "cache")
       /\ reqs[r].calls = 0
       /\ reqs[r].status = 403 /\ reqs[r].detail = DetailToken

-----------------------------------------------------------------------------
(* Path matching (specification SpecBypass) *)

\* the configured rules, none when the list is unset
ConfiguredRules == IF env.bypassPaths.defined THEN env.bypassPaths.rules ELSE <<>>

\* rule equals path, or rule ends with * and path starts with rule minus its
\* last character
RuleMatches(rule, path) ==
  \/ rule = path
  \/ /\ Len(rule) > 0 /\ rule[Len(rule)] = "*"
     /\ Len(path) >= Len(rule) - 1
     /\ \A i \in 1..(Len(rule) - 1) : path[i] = rule[i]

SomeRuleMatches(rules, path) == \E i \in 1..Len(rules) : RuleMatches(rules[i], path)

\* the orderings of a list of n rules
Orderings(n) == {p \in [1..n -> 1..n] : \A i, j \in 1..n : p[i] = p[j] => i = j}
Reordered(rules, p) == [i \in 1..Len(rules) |-> rules[p[i]]]

\* the gate let q through on the strength of its path
TookBypass(q) ==
  /\ q.pc = "done" /\ q.status = 200
  /\ q.checks = <<"enabled", "bypass">> /\ q.identity = NoIdentity

\* C14: shouldBypassAuth(path) is true exactly when some configured rule
\* equals the path or ends with * and is, less its last character, a prefix
\* of the path; every ordering of the rule list gives the same result; an
\* empty and an unset list give false.  The gate bypasses exactly then.
C14_BypassExactlyWhenSomeRuleMatches ==
  \A r \in Slots :
    LET q == reqs[r]
        rules == ConfiguredRules
    IN
    q.pc = "done" =>
      /\ shouldBypassAuth(q.path, env.bypassPaths) <=> SomeRuleMatches(rules, q.path)
      /\ TookBypass(q) <=> SomeRuleMatches(rules, q.path)
      /\ \A p \in Orderings(Len(rules)) :
           shouldBypassAuth(q.path, BypassList(Reordered(rules, p)))
             <=> shouldBypassAuth(q.path, env.bypassPaths)
      /\ rules = <<>> => ~shouldBypassAuth(q.path, env.bypassPaths) /\ ~TookBypass(q)

\* "/healthy" is let through by the second rule of a list whose first rule
\* does not match it
C14_Witness ==
  \E r \in Slots :
    /\ env.bypassPaths = BypassList(<<RuleHealthWildcard, RuleHealthPrefix>>)
    /\ reqs[r].path = PathHealthy
    /\ TookBypass(reqs[r])

\* C15: stripping the wildcard marker removes the * only.  The rule
\* "/health/*" has the prefix "/health/": alone in the list it lets
\* "/health/" and "/health/live" through and neither "/healthy" nor "/health".
C15_WildcardKeepsTheSlash ==
  \A r \in Slots :
    LET q == reqs[r] IN
    (q.pc = "done" /\ env.bypassPaths = BypassList(<<RuleHealthWildcard>>)) =>
      /\ sliceDropLast(env.bypassPaths.rules[1]) = PathHealthSlash
      /\ q.path \in {PathHealthSlash, PathHealthLive}
           => shouldBypassAuth(q.path, env.bypassPaths) /\ TookBypass(q)
      /\ q.path \in {PathHealthy, PathHealthBare}
           => /\ ~shouldBypassAuth(q.path, env.bypassPaths)
              /\ q.status = 403 /\ Did(q, "assertion")

\* "/healthy" is stopped by a gate whose only bypass rule is "/health/*"
C15_Witness ==
  \E r \in Slots :
    /\ env.bypassPaths = BypassList(<<RuleHealthWildcard>>)
    /\ reqs[r].path = PathHealthy
    /\ reqs[r].status = 403 /\ reqs[r].detail = DetailMissing

-----------------------------------------------------------------------------
(* A fetch that never completes (specification SpecHung) *)

\* Slot 1 holds the request whose fetch may hang: nothing obliges the certs
\* endpoint to answer it.  The fetches of the other slots are answered and
\* jose answers every request.
HungSlot == CHOOSE r \in Slots : \A o \in Slots : r <= o

\* Every slot takes one request: no slot is reused.
NextHung == Receive \/ Answer \/ Decide \/ Tick

SpecHung ==
  /\ Init /\ [][NextHung]_vars
  /\ \A r \in Slots \ {HungSlot} :
       WF_vars(\E resp \in FetchResults : FetchDone(r, resp))
  /\ \A r \in Slots : WF_vars(Verify(r))

\* C10: a hung fetch blocks only the request awaiting it.  Whatever the
\* request of slot 1 does, also when its fetch never completes, every other
\* request that went for the key set reaches its decision, and only requests
\* on the assertion path are ever suspended: the others are decided in the
\* step they arrive in.
C10_HungFetchBlocksOnlyItself ==
  /\ \A r \in Slots \ {HungSlot} :
       (reqs[r].pc \notin {"idle", "done"}) ~> (reqs[r].pc = "done")
  /\ [](\A r \in Slots :
          reqs[r].pc \notin {"idle", "done"} =>
            /\ Did(reqs[r], "cache")
            /\ reqs[r].pc \in {"fetching", "verifying"})

\* the fetch of slot 1 is still pending; a request that arrived later has
\* fetched the key set itself, installed it and been admitted
C10_Witness ==
  /\ reqs[HungSlot].pc = "fetching"
  /\ \E r \in Slots \ {HungSlot} :
       /\ reqs[r].pc = "done" /\ reqs[r].status = 200
       /\ reqs[r].source = "fetched" /\ reqs[r].calls = 1
       /\ reqs[r].now > reqs[HungSlot].now
       /\ cachedJWKS = reqs[r].jwks /\ jwksCacheTime = reqs[r].now

\* C16: every evaluation of cfAccessMiddleware has exactly one terminal
\* outcome.  A request calls next() at most once and sends at most one 403,
\* never both; it is decided exactly when one of the two has happened, and a
\* decided request does nothing more.  A request makes at most one key fetch:
\* the fetch is issued in the arrival step and its answer, good or bad, is
\* never followed by another.  A request whose fetch has been answered gets
\* its outcome, and so does every request whose fetch is bound to be
\* answered.
C16_OneTerminalOutcome ==
  /\ [](\A r \in Slots :
          LET q == reqs[r] IN
          /\ q.nexts + q.sent <= 1
          /\ (q.pc = "done") <=> (q.nexts + q.sent = 1)
          /\ (q.nexts = 1) <=> (q.status = 200)
          /\ (q.sent = 1) <=> (q.status = 403)
          /\ q.calls <= 1)
  /\ [][\A r \in Slots :
          /\ reqs[r].pc = "done" => reqs'[r] = reqs[r]
          /\ reqs'[r].calls # reqs[r].calls => reqs[r].pc = "idle"
          /\ (reqs[r].pc = "fetching" /\ reqs'[r] # reqs[r])
               => reqs'[r].pc \in {"verifying", "done"}
       ]_vars
  /\ \A r \in Slots : (reqs[r].pc = "verifying") ~> (reqs[r].pc = "done")
  /\ \A r \in Slots \ {HungSlot} : (reqs[r].pc # "idle") ~> (reqs[r].pc = "done")

\* one request admitted after its one fetch, another refused after its one
\* fetch failed
C16_Witness ==
  \E a, d \in Slots :
    /\ reqs[a].pc = "done" /\ reqs[a].calls = 1 /\ reqs[a].source = "fetched"
    /\ reqs[a].nexts = 1 /\ reqs[a].sent = 0 /\ reqs[a].status = 200
    /\ reqs[d].pc = "done" /\ reqs[d].calls = 1 /\ reqs[d].source = "failed"
    /\ reqs[d].nexts = 0 /\ reqs[d].sent = 1 /\ reqs[d].status = 403

-----------------------------------------------------------------------------
(* Responses, identities and the order of the checks (specification SpecGate) *)

\* C17: every denial is a 403 whose body has success false and error
\* "Access denied", with a detail of its own for each of the three reasons:
\* missing credentials (no service-token pair, no assertion), invalid or
\* expired token (an assertion that is not accepted), invalid service token
\* (a pair that is not the configured one).  A request with no credential
\* header to a non-bypassed path of an enabled gate gets the 403 with the
\* missing-credentials detail.  An admitted request gets no body from the
\* gate.
C17_DenialBody ==
  \A r \in Slots :
    LET q == reqs[r] IN
    q.pc = "done" =>
      /\ q.status # 200 =>
           /\ q.status = 403 /\ q.sent = 1
           /\ q.success = FALSE /\ q.error = "Access denied"
           /\ q.detail \in {DetailMissing, DetailToken, DetailServiceToken}
           /\ Gated(q)
           /\ (q.detail = DetailServiceToken) <=> ServiceTokenPresented(q)
           /\ (q.detail = DetailMissing)
                <=> (~ServiceTokenPresented(q) /\ JwtFalsy(q.jwt))
           /\ (q.detail = DetailToken)
                <=> (~ServiceTokenPresented(q) /\ ~JwtFalsy(q.jwt))
           /\ DetailMissing # DetailToken /\ DetailMissing # DetailServiceToken
           /\ DetailToken # DetailServiceToken
      /\ q.status = 200 => q.sent = 0 /\ q.detail = DetailNone
      /\ ( /\ Gated(q) /\ q.clientId = Undefined /\ q.clientSecret = Undefined
           /\ q.jwt = JwtAbsent )
         => q.status = 403 /\ q.detail = DetailMissing

\* no header at all, gate enabled, path not bypassed: 403, missing credentials
C17_Witness ==
  \E r \in Slots :
    LET q == reqs[r] IN
    /\ Gated(q) /\ q.path = PathSecure
    /\ q.clientId = Undefined /\ q.clientSecret = Undefined /\ q.jwt = JwtAbsent
    /\ q.status = 403 /\ q.success = FALSE /\ q.error = "Access denied"
    /\ q.detail = DetailMissing

\* C18: a request carries an identity exactly when it was admitted through a
\* credentialed path, and the identity is of the kind of that path: type
\* service_token with the client id the request presented after a
\* service-token admission; type jwt with email, sub, iat and exp as they are
\* in the verified payload (a claim the payload lacks stays undefined) after
\* an assertion admission.  A request admitted because the gate is disabled
\* or the path bypassed, a refused request and a request not yet decided
\* carry none.
C18_IdentityMatchesPath ==
  \A r \in Slots :
    LET q == reqs[r] IN
    /\ (q.identity # NoIdentity) <=> (Gated(q) /\ q.status = 200)
    /\ (Gated(q) /\ q.status = 200 /\ ServiceTokenPresented(q))
         => /\ q.identity.type = "service_token"
            /\ q.identity.clientId = q.clientId
            /\ q.identity = ServiceTokenIdentity(q.clientId)
    /\ (Gated(q) /\ q.status = 200 /\ ~ServiceTokenPresented(q))
         => /\ q.identity.type = "jwt"
            /\ q.identity.email = q.jwt.email /\ q.identity.sub = q.jwt.sub
            /\ q.identity.iat = q.jwt.iat /\ q.identity.exp = q.jwt.exp
            /\ q.identity.clientId = NoIdentity.clientId
    /\ (q.pc = "done" /\ (~env.enabled \/ shouldBypassAuth(q.path, env.bypassPaths)))
         => q.status = 200 /\ q.identity = NoIdentity
    /\ q.status = 403 => q.identity = NoIdentity

\* a verified assertion with no email claim: admitted, with a jwt identity
\* whose email is undefined
C18_Witness ==
  \E r \in Slots :
    LET q == reqs[r] IN
    /\ Gated(q) /\ q.jwt = TokNoEmail /\ ~ServiceTokenPresented(q)
    /\ q.status = 200
    /\ q.identity.type = "jwt" /\ q.identity.email = Undefined
    /\ q.identity.sub = "user-1" /\ q.identity.exp = FarFuture

\* q is decided without its assertion being verified: the gate is disabled,
\* the path bypassed, a service-token pair presented, or no assertion there
OffTokenPath(q) ==
  \/ ~env.enabled
  \/ shouldBypassAuth(q.path, env.bypassPaths)
  \/ ServiceTokenPresented(q)
  \/ JwtFalsy(q.jwt)

\* C19: the key cache is consulted on the token path only.  The checks run
\* in the order enable flag, bypass path, service-token headers, assertion
\* header, and the first that settles the request ends the evaluation: a
\* request decided as Disabled, Bypassed, by its service-token pair (admitted
\* or refused) or for missing credentials is decided in the step it arrives
\* in, never enters the verifier or getCloudflareJWKS, makes no fetch, and
\* leaves cachedJWKS and jwksCacheTime as they were.
C19_CacheOnlyOnTokenPath ==
  /\ [](\A r \in Slots :
          LET q == reqs[r] IN
          q.pc # "idle" =>
            /\ q.checks =
                 IF ~env.enabled THEN <<"enabled">>
                 ELSE IF shouldBypassAuth(q.path, env.bypassPaths)
                      THEN <<"enabled", "bypass">>
                 ELSE IF ServiceTokenPresented(q)
                      THEN <<"enabled", "bypass", "service-token">>
                 ELSE IF JwtFalsy(q.jwt)
                      THEN <<"enabled", "bypass", "assertion">>
                 ELSE IF Falsy(env.teamDomain) \/ Falsy(env.aud)
                      THEN <<"enabled", "bypass", "assertion", "verify">>
                 ELSE <<"enabled", "bypass", "assertion", "verify", "cache">>
            /\ OffTokenPath(q) =>
                 /\ q.pc = "done"
                 /\ q.source = "none" /\ q.calls = 0 /\ q.jwks = JsonNull
            /\ q.calls > 0 => ~OffTokenPath(q))
  /\ [][\A r \in Slots :
          (reqs[r].pc = "idle" /\ reqs'[r].pc # "idle" /\ OffTokenPath(reqs'[r]))
          => cachedJWKS' = cachedJWKS /\ jwksCacheTime' = jwksCacheTime
       ]_vars

\* a request admitted by its service-token pair while it also carries an
\* assertion and the cached key set is stale: no fetch, cache untouched
C19_Witness ==
  /\ cachedJWKS = KeysOld /\ jwksCacheTime = 0
  /\ ~CacheFresh(cachedJWKS, jwksCacheTime, clock)
  /\ \E r \in Slots :
       LET q == reqs[r] IN
       /\ Gated(q) /\ ServiceTokenPresented(q) /\ q.jwt = TokGood
       /\ q.status = 200 /\ q.identity.type = "service_token"
       /\ q.checks = <<"enabled", "bypass", "service-token">>
       /\ q.calls = 0 /\ q.source = "none"

-----------------------------------------------------------------------------
(* The Worker and the gate together (specification SpecEdge) *)

\* the Worker has both service-token secrets, with values
WorkerInjects == ~Falsy(workerEnv.clientId) /\ ~Falsy(workerEnv.clientSecret)

\* the gate expects the pair the Worker holds
SamePair ==
  /\ env.serviceTokenId = workerEnv.clientId
  /\ env.serviceTokenSecret = workerEnv.clientSecret

\* the Worker has built the proxied request
Forwarded == edge.built = 1

\* the proxied request carries the pair of the Worker when the Worker has
\* one and the headers of the client otherwise, and the gate receives what
\* the proxied request carries
ForwardedHeaders ==
  /\ (Forwarded /\ WorkerInjects)
       => /\ edge.fwdClientId = workerEnv.clientId
          /\ edge.fwdClientSecret = workerEnv.clientSecret
  /\ (Forwarded /\ ~WorkerInjects)
       => /\ edge.fwdClientId = edge.clientId
          /\ edge.fwdClientSecret = edge.clientSecret
  /\ reqs[1].pc # "idle"
       => /\ Forwarded
          /\ reqs[1].clientId = edge.fwdClientId
          /\ reqs[1].clientSecret = edge.fwdClientSecret
          /\ reqs[1].jwt = edge.jwt /\ reqs[1].path = edge.path

\* C20 as stated, for an enabled gate: the forwarded headers are as above
\* and, the gate expecting the pair of the Worker, every forwarded request is
\* admitted as service_token.
C20_Original ==
  /\ ForwardedHeaders
  /\ (WorkerInjects /\ SamePair /\ env.enabled /\ reqs[1].pc # "idle")
       => /\ reqs[1].pc = "done" /\ reqs[1].status = 200
          /\ reqs[1].identity = ServiceTokenIdentity(workerEnv.clientId)

\* C20 amended: with both Worker secrets set to non-empty values every
\* forwarded request carries exactly that pair, whatever the client sent;
\* with the gate expecting the same pair every forwarded request is
\* admitted in the step it arrives in: as service_token when the gate is
\* enabled and the path not bypassed, with no identity when the path is
\* bypassed or the gate disabled.  With a Worker secret unset or empty the
\* Worker forwards the credential headers of the client unchanged.
C20_WorkerPairAdmits ==
  /\ ForwardedHeaders
  /\ (WorkerInjects /\ SamePair /\ reqs[1].pc # "idle")
       => /\ reqs[1].pc = "done" /\ reqs[1].status = 200
          /\ reqs[1].calls = 0
          /\ reqs[1].identity =
               IF env.enabled /\ ~shouldBypassAuth(reqs[1].path, env.bypassPaths)
               THEN ServiceTokenIdentity(workerEnv.clientId)
               ELSE NoIdentity

\* the client sent a pair of its own; the gate got the pair of the Worker
\* and admitted the request as service_token
C20_Witness ==
  /\ WorkerInjects /\ SamePair
  /\ edge.clientId = "id-2" /\ edge.clientSecret = "secret-2"
  /\ edge.fwdClientId = "id-1" /\ edge.fwdClientSecret = "secret-1"
  /\ Gated(reqs[1]) /\ reqs[1].path = PathSecure
  /\ reqs[1].clientId = "id-1" /\ reqs[1].clientSecret = "secret-1"
  /\ reqs[1].status = 200
  /\ reqs[1].identity = ServiceTokenIdentity("id-1")

\* C21: the error outcomes of the Worker.  With CLOUD_RUN_URL not set the
\* Worker answers 500 and no upstream request is built or sent; when building
\* the upstream request or sending it throws, it answers 502; otherwise it
\* answers with the status of the upstream response, the 403 of the gate
\* included, and with the upstream headers less cf-ray and cf-cache-status.
C21_WorkerErrorOutcomes ==
  /\ edge.pc # "responded" => edge.status = 0 /\ edge.outcome = "none"
  /\ (Falsy(workerEnv.cloudRunUrl) /\ edge.pc # "idle")
       => /\ edge.pc = "responded" /\ edge.status = 500
          /\ edge.built = 0 /\ edge.fetches = 0
          /\ reqs[1].pc = "idle"
  /\ edge.pc = "responded" =>
       /\ edge.outcome \in {"misconfigured", "threw", "relayed"}
       /\ (edge.outcome = "misconfigured") <=> Falsy(workerEnv.cloudRunUrl)
       /\ (~Falsy(workerEnv.cloudRunUrl) /\ ~ParsesAsUrl(workerEnv.cloudRunUrl))
            => edge.outcome = "threw" /\ edge.fetches = 0
       /\ edge.outcome = "threw" => edge.status = 502
       /\ edge.outcome = "relayed" =>
            /\ edge.fetches = 1 /\ reqs[1].pc = "done"
            /\ edge.status = edge.upstreamStatus
            /\ reqs[1].status = 403 => edge.status = 403
            /\ \A h \in edge.upstreamHeaders :
                 (h \in edge.headers) <=> (h \notin {"cf-ray", "cf-cache-status"})
            /\ edge.headers \subseteq edge.upstreamHeaders

\* the 403 of the gate relayed as it is, with cf-ray taken out of the headers
\* and the other headers kept
C21_Witness ==
  /\ edge.pc = "responded" /\ edge.outcome = "relayed"
  /\ reqs[1].status = 403 /\ edge.status = 403
  /\ "cf-ray" \in edge.upstreamHeaders /\ "cf-ray" \notin edge.headers
  /\ "x-cf-trace" \in edge.headers /\ "set-cookie" \in edge.headers

-----------------------------------------------------------------------------
(* Concurrent refreshes (specification Spec) *)

\* C22 as stated: the cache always holds the result of the most recently
\* started successful fetch.  Every request whose own fetch succeeded started
\* it no later than the fetch whose result is in the cache, so that the
\* result of an earlier-started fetch never replaces that of a later-started
\* one and jwksCacheTime never goes back.
C22_Original ==
  \A r \in Slots :
    reqs[r].source = "fetched" => reqs[r].now <= jwksCacheTime
\* the checks of jose on the assertion of q against the key set jwks
PassesAgainst(q, jwks) ==
  /\ jwks.kind = "jwks"
  /\ q.jwt.wellFormed
  /\ q.jwt.kid \in jwks.keys /\ q.jwt.signer = q.jwt.kid
  /\ q.jwt.iss = IssuerOf(env.teamDomain)
  /\ env.aud \in q.jwt.aud
  /\ q.jwt.exp > clock \div 1000

\* C23: a request that issued its own key fetch is decided by the result of
\* that fetch only.  When its fetch fails it is refused in that step,
\* whatever the cache holds then, a fresh entry installed by another request
\* included; when its fetch succeeds it keeps the key set it received and is
\* admitted exactly when its assertion passes against that key set, whatever
\* the cache holds when jose is called.
C23_DecidedByOwnFetch ==
  /\ [](\A r \in Slots :
          LET q == reqs[r] IN
          /\ q.source = "failed"
               => /\ q.pc = "done" /\ q.status = 403 /\ q.detail = DetailToken
                  /\ q.identity = NoIdentity /\ q.jwks = JsonNull
          /\ q.source \in {"pending", "fetched", "failed"} => q.calls = 1)
  /\ [][\A r \in Slots :
          /\ (reqs[r].pc = "fetching" /\ reqs'[r].pc = "verifying")
               => reqs'[r].source = "fetched" /\ reqs'[r].jwks = cachedJWKS'
          /\ (reqs[r].pc = "verifying" /\ reqs'[r].pc = "verifying")
               => reqs'[r].jwks = reqs[r].jwks
          /\ (reqs[r].pc = "verifying" /\ reqs[r].source = "fetched"
                /\ reqs'[r].pc = "done")
               => /\ reqs'[r].jwks = reqs[r].jwks
                  /\ (reqs'[r].status = 200) <=> PassesAgainst(reqs[r], reqs[r].jwks)
                  /\ (reqs'[r].status = 403) <=> ~PassesAgainst(reqs[r], reqs[r].jwks)
       ]_vars

\* a request admitted on the key set its own fetch returned (k1 and k2) while
\* the cache holds a fresh entry, installed since by another request, that
\* would refuse its token
C23_Witness ==
  /\ cachedJWKS = KeysOld /\ CacheFresh(cachedJWKS, jwksCacheTime, clock)
  /\ \E r \in Slots :
       LET q == reqs[r] IN
       /\ q.pc = "done" /\ q.source = "fetched" /\ q.calls = 1
       /\ q.jwt = TokKey2 /\ q.jwks = KeysRotated
       /\ ~PassesAgainst(q, cachedJWKS)
       /\ q.status = 200 /\ q.identity.type = "jwt"

-----------------------------------------------------------------------------
(* The two versions of the middleware, under SpecPair *)

\* what a client of the middleware sees of a request: how far it got, whether
\* next() ran, what was sent, with which status and body
SameOutcome(n, o) ==
  /\ n.pc = o.pc
  /\ n.nexts = o.nexts
  /\ n.sent = o.sent
  /\ n.status = o.status
  /\ n.success = o.success
  /\ n.error = o.error
  /\ n.detail = o.detail

\* what the request did to the cache and through it: the fetches it made,
\* the key set it verified against and where that came from
SameCacheEffects(n, o) ==
  /\ n.calls = o.calls
  /\ n.source = o.source
  /\ n.jwks = o.jwks
  /\ n.now = o.now
  /\ cachedJWKS = old.cachedJWKS
  /\ jwksCacheTime = old.jwksCacheTime

\* C24: given the same configuration, cache, clock and fetch results, the
\* service-token-aware middleware and the assertion-only middleware agree,
\* at every point of a request that does not carry both service-token
\* headers with non-empty values, on admit or deny, on the status and the
\* detail of a denial and on the cache; the identity they attach is the same
\* but for the type property, which only the later version sets.
C24_RefinesAssertionOnly ==
  (reqs[1].pc # "idle" /\ ~CarriesBothNonEmpty(reqs[1])) =>
    /\ old.req.path = reqs[1].path
    /\ old.req.jwt = reqs[1].jwt
    /\ SameOutcome(reqs[1], old.req)
    /\ SameCacheEffects(reqs[1], old.req)
    /\ old.req.identity =
         IF reqs[1].identity = NoIdentity THEN NoIdentity
         ELSE [reqs[1].identity EXCEPT !.type = Undefined]

\* one of the two headers only, a valid assertion and an expired cache: both
\* versions fetched, installed the fetched key set and admitted
C24_Witness ==
  /\ reqs[1].clientId = "id-1" /\ reqs[1].clientSecret = ""
  /\ env.serviceTokenId = "id-1"
  /\ reqs[1].source = "fetched" /\ old.req.source = "fetched"
  /\ reqs[1].pc = "done" /\ old.req.pc = "done"
  /\ reqs[1].nexts = 1 /\ old.req.nexts = 1
  /\ reqs[1].identity.type = "jwt" /\ old.req.identity.type = Undefined
  /\ cachedJWKS = KeysOld /\ old.cachedJWKS = KeysOld
  /\ jwksCacheTime = clock /\ old.jwksCacheTime = clock


=============================================================================
